---- MODULE Spec2Model ----
(***************************************************************************)
(* Midtrans payment-notification handler (server.js).                      *)
(*                                                                         *)
(* The state is the process (its environment and whether it listens), the  *)
(* two Supabase tables the handler touches (payments, quiz_results) and,   *)
(* for every request of the run, its route, the position of its            *)
(* invocation of app.post('/payment-notification'), the notification it    *)
(* carries, the row it looked up, the store calls it has issued and the    *)
(* HTTP response it was sent.  The wall clock read by new Date() is an     *)
(* input of the step that reads it.                                        *)
(*                                                                         *)
(* Strings that are concatenated or hashed (order_id, status_code,         *)
(* gross_amount, signature_key, the server key) are sequences of           *)
(* one-character strings.  Strings that are only compared                  *)
(* (transaction_status, fraud_status, table status) are TLA+ strings.      *)
(***************************************************************************)
EXTENDS Integers, Sequences, FiniteSets, TLC

VARIABLES payments, quiz_results, handlers, server

vars == <<payments, quiz_results, handlers, server>>

-----------------------------------------------------------------------------
(* Bounds *)

\* Instants the wall clock can show are 1..MaxInstant; 0 is a payment_date
\* that was never stamped.
MaxInstant == 2

Instants == 1..MaxInstant

-----------------------------------------------------------------------------
(* Values *)

\* The requests of a run, named in the order they arrive; each is one
\* invocation of a route handler.
Procs == {"h1", "h2"}

\* The requests that arrive before h.
Earlier(h) == IF h = "h2" THEN {"h1"} ELSE {}

PostNotification == "POST /payment-notification"
GetHealthRoute == "GET /health"
GetPaymentStatusRoute == "GET /payment-status/:orderId"

\* A field that is not in the JSON body destructures to undefined.
ABSENT == <<"undefined">>
EMPTY == <<>>

OrderA == <<"A">>
OrderB == <<"B">>
OrderIds == {OrderA, OrderB}

Code200 == <<"2", "0", "0">>
Amount10 == <<"1", "0">>

QuizIds == {"q1", "q2"}
PayRows == {"p1", "p2"}

NoData == [quiz_result_id |-> "none", user_id |-> "none"]
NoResponse == [status |-> 0, body |-> "none"]
NoNotification ==
    [transaction_status |-> "undefined", fraud_status |-> "undefined",
     order_id |-> ABSENT, status_code |-> ABSENT, gross_amount |-> ABSENT,
     signature_key |-> ABSENT]

\* What a store call can come back with: the query ran ("ok"), the client
\* returned { error } ("error"), or the awaited promise rejected ("throw").
StoreReplies == {"ok", "error", "throw"}

-----------------------------------------------------------------------------
(* Signature verification, server.js:99-105, 140-161 *)

\* The secret shared with the gateway; process.env.MIDTRANS_SERVER_KEY holds
\* it when the deployment sets it, and server.serverKey is the constant
\* MIDTRANS_SERVER_KEY of line 100 that was loaded from there.
MIDTRANS_SERVER_KEY == <<"K">>

HexDigits ==
    <<"0", "1", "2", "3", "4", "5", "6", "7",
      "8", "9", "a", "b", "c", "d", "e", "f">>

\* Code unit of a character of the model's alphabet.
CharCode(c) ==
    CASE c = "0" -> 48
      [] c = "1" -> 49
      [] c = "2" -> 50
      [] c = "A" -> 65
      [] c = "B" -> 66
      [] c = "K" -> 75
      [] c = "a" -> 97
      [] c = "b" -> 98
      [] OTHER -> 63

ByteHex(b) == <<HexDigits[(b \div 16) + 1], HexDigits[(b % 16) + 1]>>

RECURSIVE HexEncode(_)
HexEncode(s) ==
    IF s = <<>> THEN <<>>
    ELSE ByteHex(CharCode(Head(s))) \o HexEncode(Tail(s))

\* crypto.createHash('sha512').update(input).digest('hex').  The digest is
\* abstracted as a collision-free function of the input rendered, as
\* digest('hex') does, in lower-case hexadecimal digits.
sha512hex(input) == HexEncode(input)

\* Variant: the secret is put in front of the three fields.
verifySignature_SecretFirst(orderId, statusCode, grossAmount, signature) ==
    LET input == server.serverKey \o orderId \o statusCode \o grossAmount
        hash == sha512hex(input)
    IN  hash = signature

verifySignature(orderId, statusCode, grossAmount, signature) ==
    LET input == orderId \o statusCode \o grossAmount \o server.serverKey
        hash == sha512hex(input)
    IN  hash = signature

-----------------------------------------------------------------------------
(* The handler's synchronous code, server.js:164-359 *)

Falsy(v) == v = ABSENT \/ v = EMPTY

\* Variant: gross_amount is not among the fields checked.
MissingRequired_AmountForgotten(n) ==
    \/ Falsy(n.order_id)
    \/ Falsy(n.status_code)
    \/ Falsy(n.signature_key)

MissingRequired(n) ==
    \/ Falsy(n.order_id)
    \/ Falsy(n.status_code)
    \/ Falsy(n.gross_amount)
    \/ Falsy(n.signature_key)

\* Variant: only settlement counts as successful.
isSuccessful_SettlementOnly(n) == n.transaction_status = "settlement"

\* Variant: the fraud status of a capture is not looked at.
isSuccessful_AnyCapture(n) ==
    \/ n.transaction_status = "capture"
    \/ n.transaction_status = "settlement"

isSuccessful(n) ==
    \/ (n.transaction_status = "capture" /\ n.fraud_status = "accept")
    \/ n.transaction_status = "settlement"

\* Variant: expire is not among the failed statuses.
isFailed_ExpireForgotten(n) ==
    \/ n.transaction_status = "cancel"
    \/ n.transaction_status = "deny"

isFailed(n) ==
    \/ n.transaction_status = "cancel"
    \/ n.transaction_status = "deny"
    \/ n.transaction_status = "expire"

isPending(n) == n.transaction_status = "pending"

Response(status, body) == [status |-> status, body |-> body]

Ok200 == Response(200, "Notification processed successfully")
MissingFields400 == Response(400, "Missing required fields")
InvalidSignature400 == Response(400, "Invalid signature")
NotFound404 == Response(404, "Payment record not found")
QuizUpdateFailed500 == Response(500, "Failed to update quiz result")
InternalError500 == Response(500, "Internal server error")

\* res.status(..).json(..): the handler is finished.
Respond(hs, r) == [hs EXCEPT !.pc = "done", !.response = r]

\* One more store call issued by the handler, with what came back.
Called(hs, op, reply) ==
    [hs EXCEPT !.calls = Append(@, [op |-> op, reply |-> reply])]

\* isValidSignature is "unset" until verifySignature has been called; body
\* is "object" when req.body is the parsed JSON object and "undefined" when
\* the request came without one.
IdleHandler ==
    [pc |-> "idle", route |-> "none", body |-> "none",
     notif |-> NoNotification, isValidSignature |-> "unset",
     paymentData |-> NoData, response |-> NoResponse, calls |-> <<>>]

\* The handler of a notification request at its entry, line 164.
Entered(n) ==
    [IdleHandler EXCEPT !.route = PostNotification, !.body = "object",
                        !.notif = n]

\* Variant: a status that is neither successful nor pending is a failure.
Dispatched_OtherFails(hs) ==
    IF isSuccessful(hs.notif) THEN [hs EXCEPT !.pc = "selectPayment"]
    ELSE IF isPending(hs.notif) THEN [hs EXCEPT !.pc = "updatePending"]
    ELSE [hs EXCEPT !.pc = "updateFailed"]

\* Lines 222-347 up to the first await: the branch taken once the
\* signature has been accepted.
Dispatched(hs) ==
    IF isSuccessful(hs.notif) THEN [hs EXCEPT !.pc = "selectPayment"]
    ELSE IF isFailed(hs.notif) THEN [hs EXCEPT !.pc = "updateFailed"]
    ELSE IF isPending(hs.notif) THEN [hs EXCEPT !.pc = "updatePending"]
    ELSE Respond(hs, Ok200)

\* Variant: for a settlement the transaction status is part of the string
\* the signature is checked against.
Received_SettlementSigned(n) ==
    LET hs == Entered(n)
        signedAmount ==
            IF n.transaction_status = "settlement"
            THEN n.gross_amount \o <<"settlement">>
            ELSE n.gross_amount
        checked ==
            [hs EXCEPT !.isValidSignature =
                IF verifySignature(n.order_id, n.status_code,
                                   signedAmount, n.signature_key)
                THEN "true" ELSE "false"]
    IN  IF MissingRequired(n) THEN Respond(hs, MissingFields400)
        ELSE IF checked.isValidSignature = "false"
             THEN Respond(checked, InvalidSignature400)
        ELSE Dispatched(checked)

\* Variant: the result of verifySignature is not acted on.
Received_SignatureIgnored(n) ==
    LET hs == Entered(n)
        checked ==
            [hs EXCEPT !.isValidSignature =
                IF verifySignature(n.order_id, n.status_code,
                                   n.gross_amount, n.signature_key)
                THEN "true" ELSE "false"]
    IN  IF MissingRequired(n) THEN Respond(hs, MissingFields400)
        ELSE Dispatched(checked)

\* Lines 164-220 and then Dispatched: from the arrival of the request to
\* the first await, or to the response when there is none.
Received(n) ==
    LET hs == Entered(n)
        checked ==
            [hs EXCEPT !.isValidSignature =
                IF verifySignature(n.order_id, n.status_code,
                                   n.gross_amount, n.signature_key)
                THEN "true" ELSE "false"]
    IN  IF MissingRequired(n) THEN Respond(hs, MissingFields400)
        ELSE IF checked.isValidSignature = "false"
             THEN Respond(checked, InvalidSignature400)
        ELSE Dispatched(checked)

\* Lines 172-181 and 349-358 when req.body is undefined: the destructuring
\* throws and the catch block answers.
ReceivedWithoutBody ==
    Respond([IdleHandler EXCEPT !.route = PostNotification,
                                !.body = "undefined"],
            InternalError500)

-----------------------------------------------------------------------------
(* The store calls, server.js:240-283, 300-303, 318-321 *)

\* .eq('transaction_id', order_id)
MatchingRows(pay, orderId) ==
    {r \in PayRows : pay[r].transaction_id = orderId}

\* Variant: the first matching row is taken, as with .limit(1).
SelectError_FirstRow(pay, orderId, reply) ==
    reply = "error" \/ MatchingRows(pay, orderId) = {}

\* select('quiz_result_id, user_id').eq(..).single(): an error unless
\* exactly one row matches.
SelectError(pay, orderId, reply) ==
    reply = "error" \/ Cardinality(MatchingRows(pay, orderId)) # 1

SelectData(pay, orderId) ==
    LET r == CHOOSE r \in MatchingRows(pay, orderId) : TRUE
    IN  [quiz_result_id |-> pay[r].quiz_result_id,
         user_id |-> pay[r].user_id]

\* Variant: the error of the lookup is logged and the handler goes on.
AfterSelect_NotFoundLogged(hs, pay, reply) ==
    LET c == Called(hs, "select_payment", reply)
    IN  IF reply = "throw" THEN Respond(c, InternalError500)
        ELSE [c EXCEPT !.pc = "updateQuiz",
                       !.paymentData =
                          IF SelectError(pay, hs.notif.order_id, reply)
                          THEN NoData
                          ELSE SelectData(pay, hs.notif.order_id)]

\* Variant: the lookup is awaited outside the try block, so a rejected
\* lookup ends the handler without a response.
AfterSelect_ThrowUncaught(hs, pay, reply) ==
    LET c == Called(hs, "select_payment", reply)
    IN  IF reply = "throw" THEN [c EXCEPT !.pc = "crashed"]
        ELSE IF SelectError(pay, hs.notif.order_id, reply)
             THEN Respond(c, NotFound404)
        ELSE [c EXCEPT !.pc = "updateQuiz",
                       !.paymentData = SelectData(pay, hs.notif.order_id)]

\* Lines 240-257.
AfterSelect(hs, pay, reply) ==
    LET c == Called(hs, "select_payment", reply)
    IN  IF reply = "throw" THEN Respond(c, InternalError500)
        ELSE IF SelectError(pay, hs.notif.order_id, reply)
             THEN Respond(c, NotFound404)
        ELSE [c EXCEPT !.pc = "updateQuiz",
                       !.paymentData = SelectData(pay, hs.notif.order_id)]

\* Variant: the premium update is filtered by a key no quiz result has, so
\* it succeeds without updating a record.
QuizUpdated_NoRowMatched(quiz, id, reply) == quiz

\* Variant: the premium update flips the flag.
QuizUpdated_Toggles(quiz, id, reply) ==
    IF reply = "ok"
    THEN [q \in QuizIds |->
            IF q = id
            THEN [quiz[q] EXCEPT !.is_premium =
                                    IF @ = "true" THEN "false" ELSE "true"]
            ELSE quiz[q]]
    ELSE quiz

\* Variant: the premium update is not restricted to the quiz result of the
\* payment.
QuizUpdated_NoFilter(quiz, id, reply) ==
    IF reply = "ok"
    THEN [q \in QuizIds |-> [quiz[q] EXCEPT !.is_premium = "true"]]
    ELSE quiz

\* from('quiz_results').update({ is_premium: true }).eq('id', id)
QuizUpdated(quiz, id, reply) ==
    IF reply = "ok"
    THEN [q \in QuizIds |->
            IF q = id THEN [quiz[q] EXCEPT !.is_premium = "true"]
            ELSE quiz[q]]
    ELSE quiz

\* Variant: the handler answers once the quiz result is updated.
AfterQuizUpdate_AnswersEarly(hs, reply) ==
    LET c == Called(hs, "update_quiz_result", reply)
    IN  IF reply = "throw" THEN Respond(c, InternalError500)
        ELSE IF reply = "error" THEN Respond(c, QuizUpdateFailed500)
        ELSE Respond(c, Ok200)

\* Variant: the error of the premium update is logged and nothing more.
AfterQuizUpdate_ErrorLogged(hs, reply) ==
    LET c == Called(hs, "update_quiz_result", reply)
    IN  IF reply = "throw" THEN Respond(c, InternalError500)
        ELSE [c EXCEPT !.pc = "updateCompleted"]

\* Lines 259-276.
AfterQuizUpdate(hs, reply) ==
    LET c == Called(hs, "update_quiz_result", reply)
    IN  IF reply = "throw" THEN Respond(c, InternalError500)
        ELSE IF reply = "error" THEN Respond(c, QuizUpdateFailed500)
        ELSE [c EXCEPT !.pc = "updateCompleted"]

\* Variant: an update leaves a completed record as it is.
PaymentsUpdated_CompletedKept(pay, orderId, status, stamp, now, reply) ==
    IF reply = "ok"
    THEN [r \in PayRows |->
            IF pay[r].transaction_id = orderId /\ pay[r].status # "completed"
            THEN [pay[r] EXCEPT !.status = status,
                                !.payment_date = IF stamp THEN now ELSE @]
            ELSE pay[r]]
    ELSE pay

\* Variant: the update is not restricted to the records of the order.
PaymentsUpdated_NoFilter(pay, orderId, status, stamp, now, reply) ==
    IF reply = "ok"
    THEN [r \in PayRows |->
            [pay[r] EXCEPT !.status = status,
                           !.payment_date = IF stamp THEN now ELSE @]]
    ELSE pay

\* Variant: an update leaves records that are completed or failed as they
\* are.
PaymentsUpdated_TerminalKept(pay, orderId, status, stamp, now, reply) ==
    IF reply = "ok"
    THEN [r \in PayRows |->
            IF pay[r].transaction_id = orderId /\ pay[r].status = "pending"
            THEN [pay[r] EXCEPT !.status = status,
                                !.payment_date = IF stamp THEN now ELSE @]
            ELSE pay[r]]
    ELSE pay

\* from('payments').update({ status, payment_date? }).eq('transaction_id', id)
PaymentsUpdated(pay, orderId, status, stamp, now, reply) ==
    IF reply = "ok"
    THEN [r \in PayRows |->
            IF pay[r].transaction_id = orderId
            THEN [pay[r] EXCEPT !.status = status,
                                !.payment_date = IF stamp THEN now ELSE @]
            ELSE pay[r]]
    ELSE pay

\* Variant: the error of a payment update is reported to the gateway.
AfterPaymentUpdate_ErrorSurfaced(hs, reply) ==
    LET c == Called(hs, "update_payment", reply)
    IN  IF reply = "ok" THEN Respond(c, Ok200)
        ELSE Respond(c, InternalError500)

\* Lines 277-294, 305-312, 323-330 and 338-347: the error of a payment
\* update is logged and the notification is acknowledged.
AfterPaymentUpdate(hs, reply) ==
    LET c == Called(hs, "update_payment", reply)
    IN  IF reply = "throw" THEN Respond(c, InternalError500)
        ELSE Respond(c, Ok200)

-----------------------------------------------------------------------------
(* Inputs *)

TransactionStatuses ==
    {"settlement", "capture", "cancel", "deny", "expire", "pending",
     "refund", "undefined"}

FraudStatuses == {"accept", "challenge", "undefined"}

\* The signature Midtrans computes for a notification.
Signed(o, sc, ga) == sha512hex(o \o sc \o ga \o MIDTRANS_SERVER_KEY)

UpperChar(c) ==
    CASE c = "a" -> "A"
      [] c = "b" -> "B"
      [] OTHER -> c

UpperCase(s) == [i \in 1..Len(s) |-> UpperChar(s[i])]

Notification(ts, fs, o, sc, ga, sk) ==
    [transaction_status |-> ts, fraud_status |-> fs, order_id |-> o,
     status_code |-> sc, gross_amount |-> ga, signature_key |-> sk]

\* Notifications as the gateway sends them.
GenuineNotifications ==
    {Notification(ts, fs, o, Code200, Amount10, Signed(o, Code200, Amount10)) :
        ts \in TransactionStatuses, fs \in FraudStatuses, o \in OrderIds}

\* The signature of another order, or the right digest in upper case.
ForgedNotifications ==
    {[n EXCEPT !.signature_key = sk] :
        n \in GenuineNotifications,
        sk \in {Signed(o, Code200, Amount10) : o \in OrderIds}
               \cup {UpperCase(Signed(o, Code200, Amount10)) : o \in OrderIds}}
    \ GenuineNotifications

\* One required field left out, or sent as the empty string.
IncompleteNotifications ==
    UNION {{[n EXCEPT !.order_id = v], [n EXCEPT !.status_code = v],
            [n EXCEPT !.gross_amount = v], [n EXCEPT !.signature_key = v]} :
              n \in GenuineNotifications, v \in {ABSENT, EMPTY}}

\* The body {} has none of the fields.
Notifications ==
    GenuineNotifications \cup ForgedNotifications \cup IncompleteNotifications
    \cup {NoNotification}

\* The notifications of the concurrent runs: for each order a genuine one of
\* every transaction status, and for order A the ways of being turned away
\* (a fraud status that is not accepted, the signature of another order, a
\* field left out).
Traffic ==
    {n \in GenuineNotifications : n.fraud_status = "accept"}
    \cup {n \in GenuineNotifications :
            /\ n.order_id = OrderA
            /\ n.transaction_status = "capture"}
    \cup {n \in ForgedNotifications \cup IncompleteNotifications :
            /\ n.order_id \in {OrderA, ABSENT}
            /\ n.status_code = Code200
            /\ n.gross_amount = Amount10
            /\ n.signature_key \in {Signed(OrderA, Code200, Amount10),
                                    Signed(OrderB, Code200, Amount10)}
            /\ n.transaction_status = "settlement"
            /\ n.fraud_status = "accept"}
    \cup {NoNotification}

-----------------------------------------------------------------------------
(* Initial state *)

TableStatuses == {"pending", "completed", "failed"}
PremiumValues == {"null", "false", "true"}

EnvSettings == {"set", "unset"}
ServerStates == {"starting", "listening", "exited"}

TypeOK ==
    /\ server.state \in ServerStates
    /\ server.supabaseUrl \in EnvSettings
    /\ server.supabaseServiceKey \in EnvSettings
    /\ server.serverKey \in {MIDTRANS_SERVER_KEY, ABSENT, EMPTY}
    /\ \A r \in PayRows :
          /\ payments[r].transaction_id \in OrderIds
          /\ payments[r].quiz_result_id \in QuizIds
          /\ payments[r].status \in TableStatuses
          /\ payments[r].payment_date \in 0..MaxInstant
    /\ \A q \in QuizIds : quiz_results[q].is_premium \in PremiumValues
    /\ \A h \in Procs :
          handlers[h].pc \in
            {"idle", "selectPayment", "updateQuiz", "updateCompleted",
             "updateFailed", "updatePending", "done"}

\* The process has read its environment (lines 83-84, 100) and has yet to
\* validate it; no request has arrived.
Init ==
    /\ server \in
         {[state |-> "starting", supabaseUrl |-> u, supabaseServiceKey |-> k,
           serverKey |-> m] :
            u \in EnvSettings, k \in EnvSettings,
            m \in {MIDTRANS_SERVER_KEY, ABSENT, EMPTY}}
    /\ payments \in
         {[r \in PayRows |->
             [transaction_id |-> IF r = "p1" THEN OrderA ELSE o2,
              quiz_result_id |-> IF r = "p1" THEN "q1" ELSE "q2",
              user_id |-> "u1",
              status |-> st[r],
              payment_date |-> 0]] :
            o2 \in OrderIds, st \in [PayRows -> TableStatuses]}
    /\ quiz_results \in
         {[q \in QuizIds |-> [is_premium |-> IF q = "q1" THEN v ELSE w]] :
            v \in PremiumValues, w \in {"false", "true"}}
    /\ handlers = [h \in Procs |-> IdleHandler]

-----------------------------------------------------------------------------
(* Actions *)

\* What the return of the store call a handler is waiting for does to the
\* handler and to the tables: the call runs in the store and the handler
\* runs on to its next await or to its response.
Step(hs, pay, quiz, reply, now) ==
    CASE hs.pc = "selectPayment" ->
           [hs |-> AfterSelect(hs, pay, reply),
            payments |-> pay, quiz_results |-> quiz]
      [] hs.pc = "updateQuiz" ->
           [hs |-> AfterQuizUpdate(hs, reply),
            payments |-> pay,
            quiz_results |->
                QuizUpdated(quiz, hs.paymentData.quiz_result_id, reply)]
      [] hs.pc = "updateCompleted" ->
           [hs |-> AfterPaymentUpdate(hs, reply),
            payments |-> PaymentsUpdated(pay, hs.notif.order_id,
                                         "completed", TRUE, now, reply),
            quiz_results |-> quiz]
      [] hs.pc = "updateFailed" ->
           [hs |-> AfterPaymentUpdate(hs, reply),
            payments |-> PaymentsUpdated(pay, hs.notif.order_id,
                                         "failed", FALSE, now, reply),
            quiz_results |-> quiz]
      [] hs.pc = "updatePending" ->
           [hs |-> AfterPaymentUpdate(hs, reply),
            payments |-> PaymentsUpdated(pay, hs.notif.order_id,
                                         "pending", FALSE, now, reply),
            quiz_results |-> quiz]
      [] OTHER ->
           [hs |-> hs, payments |-> pay, quiz_results |-> quiz]

StoreCallReturns(h, reply, now) ==
    LET next == Step(handlers[h], payments, quiz_results, reply, now)
    IN  /\ handlers' = [handlers EXCEPT ![h] = next.hs]
        /\ payments' = next.payments
        /\ quiz_results' = next.quiz_results
        /\ UNCHANGED server

\* Variant: the Midtrans server key is not validated.
Booted_SecretUnchecked(srv) ==
    IF srv.supabaseUrl = "unset" THEN [srv EXCEPT !.state = "exited"]
    ELSE IF srv.supabaseServiceKey = "unset" THEN [srv EXCEPT !.state = "exited"]
    ELSE [srv EXCEPT !.state = "listening"]

\* Lines 86-105 and 401-413: the process exits when a required environment
\* variable is missing or empty, and listens otherwise.
Booted(srv) ==
    IF srv.supabaseUrl = "unset" THEN [srv EXCEPT !.state = "exited"]
    ELSE IF srv.supabaseServiceKey = "unset" THEN [srv EXCEPT !.state = "exited"]
    ELSE IF Falsy(srv.serverKey) THEN [srv EXCEPT !.state = "exited"]
    ELSE [srv EXCEPT !.state = "listening"]

Start ==
    /\ server.state = "starting"
    /\ server' = Booted(server)
    /\ UNCHANGED <<payments, quiz_results, handlers>>

\* Request h can arrive: the server listens and the requests before it
\* have arrived.
Arrives(h) ==
    /\ server.state = "listening"
    /\ handlers[h].pc = "idle"
    /\ \A g \in Earlier(h) : handlers[g].pc # "idle"

\* A request arrives and runs to its first await or to its response.
Receive(h, n) ==
    /\ Arrives(h)
    /\ handlers' = [handlers EXCEPT ![h] = Received(n)]
    /\ UNCHANGED <<payments, quiz_results, server>>

\* A request arrives without a parsed body.
ReceiveWithoutBody(h) ==
    /\ Arrives(h)
    /\ handlers' = [handlers EXCEPT ![h] = ReceivedWithoutBody]
    /\ UNCHANGED <<payments, quiz_results, server>>

\* Lines 361-370.
HealthChecked ==
    Respond([IdleHandler EXCEPT !.route = GetHealthRoute], Response(200, "OK"))

GetHealth(h) ==
    /\ Arrives(h)
    /\ handlers' = [handlers EXCEPT ![h] = HealthChecked]
    /\ UNCHANGED <<payments, quiz_results, server>>

\* Lines 372-399: the payment of orderId joined with its quiz result and
\* user, read with .single(); the orderId of the path is kept in
\* notif.order_id and the row read in paymentData.
PaymentStatusRead(pay, orderId, reply) ==
    LET hs == [IdleHandler EXCEPT !.route = GetPaymentStatusRoute,
                                  !.notif.order_id = orderId]
        c == Called(hs, "select_payment_status", reply)
    IN  IF reply = "throw" THEN Respond(c, InternalError500)
        ELSE IF SelectError(pay, orderId, reply)
             THEN Respond(c, Response(404, "Payment not found"))
        ELSE Respond([c EXCEPT !.paymentData = SelectData(pay, orderId)],
                     Response(200, "payment"))

GetPaymentStatus(h, orderId, reply) ==
    /\ Arrives(h)
    /\ handlers' =
         [handlers EXCEPT ![h] = PaymentStatusRead(payments, orderId, reply)]
    /\ UNCHANGED <<payments, quiz_results, server>>

\* The payment lookup returns.
SelectPayment(h, reply) ==
    /\ handlers[h].pc = "selectPayment"
    /\ StoreCallReturns(h, reply, 0)

\* The premium update runs in the store and returns.
UpdateQuiz(h, reply) ==
    /\ handlers[h].pc = "updateQuiz"
    /\ StoreCallReturns(h, reply, 0)

\* The payment-status update of the successful path, stamped with the
\* time the handler read.
UpdateCompleted(h, reply, now) ==
    /\ handlers[h].pc = "updateCompleted"
    /\ StoreCallReturns(h, reply, now)

\* The payment-status update of the cancel / deny / expire path.
UpdateFailed(h, reply) ==
    /\ handlers[h].pc = "updateFailed"
    /\ StoreCallReturns(h, reply, 0)

\* The payment-status update of the pending path.
UpdatePending(h, reply) ==
    /\ handlers[h].pc = "updatePending"
    /\ StoreCallReturns(h, reply, 0)

\* Two requests, the second arriving while or after the first is handled.
Next ==
    \/ Start
    \/ \E h \in Procs, n \in Traffic : Receive(h, n)
    \/ \E h \in Procs : ReceiveWithoutBody(h)
    \/ \E h \in Procs : GetHealth(h)
    \/ \E h \in Procs, o \in OrderIds, reply \in StoreReplies :
          GetPaymentStatus(h, o, reply)
    \/ \E h \in Procs, reply \in StoreReplies : SelectPayment(h, reply)
    \/ \E h \in Procs, reply \in StoreReplies : UpdateQuiz(h, reply)
    \/ \E h \in Procs, reply \in StoreReplies, now \in Instants :
          UpdateCompleted(h, reply, now)
    \/ \E h \in Procs, reply \in StoreReplies : UpdateFailed(h, reply)
    \/ \E h \in Procs, reply \in StoreReplies : UpdatePending(h, reply)

Spec == Init /\ [][Next]_vars

\* The runs of Spec that start from tables in which no payment is completed,
\* as they are before the first successful notification is handled.
FreshInit ==
    /\ Init
    /\ \A r \in PayRows : payments[r].status # "completed"

FreshSpec == FreshInit /\ [][Next]_vars

\* The store call request h awaits comes back, with a result, an error or an
\* exception.
StoreCallCompletes(h) ==
    \/ \E reply \in StoreReplies : SelectPayment(h, reply)
    \/ \E reply \in StoreReplies : UpdateQuiz(h, reply)
    \/ \E reply \in StoreReplies, now \in Instants :
          UpdateCompleted(h, reply, now)
    \/ \E reply \in StoreReplies : UpdateFailed(h, reply)
    \/ \E reply \in StoreReplies : UpdatePending(h, reply)

\* The notifications of the runs checked for termination: those of Traffic
\* for order A, and those with the order id left out.
FairTraffic == {n \in Traffic : n.order_id \in {OrderA, ABSENT}}

FairNext ==
    \/ Start
    \/ \E h \in Procs, n \in FairTraffic : Receive(h, n)
    \/ \E h \in Procs : ReceiveWithoutBody(h)
    \/ \E h \in Procs : StoreCallCompletes(h)

\* Two notification requests, in the runs in which no awaited store call
\* stays out for ever.
FairSpec ==
    Init /\ [][FairNext]_vars /\ \A h \in Procs : WF_vars(StoreCallCompletes(h))

\* A single request, carrying any notification of the input space.
SeqNext ==
    \/ Start
    \/ \E n \in Notifications : Receive("h1", n)
    \/ ReceiveWithoutBody("h1")
    \/ \E reply \in StoreReplies : SelectPayment("h1", reply)
    \/ \E reply \in StoreReplies : UpdateQuiz("h1", reply)
    \/ \E reply \in StoreReplies, now \in Instants :
          UpdateCompleted("h1", reply, now)
    \/ \E reply \in StoreReplies : UpdateFailed("h1", reply)
    \/ \E reply \in StoreReplies : UpdatePending("h1", reply)

SeqSpec == Init /\ [][SeqNext]_vars

-----------------------------------------------------------------------------
(* The signature verifier on its own, server.js:140-161 *)

\* The characters of the fields and of a received signature.
FieldAlphabet == {"0", "1", "2", "A", "B", "K", "a", "b"}
SignatureAlphabet ==
    {HexDigits[i] : i \in DOMAIN HexDigits} \cup {"A", "B", "C", "D", "E", "F"}

\* s without its i-th character, and s with c put before its i-th character
\* (after the last one when i = Len(s) + 1).
Without(s, i) == [j \in 1..(Len(s) - 1) |-> IF j < i THEN s[j] ELSE s[j + 1]]
WithBefore(s, i, c) ==
    [j \in 1..(Len(s) + 1) |->
        IF j < i THEN s[j] ELSE IF j = i THEN c ELSE s[j - 1]]

\* The strings one character away from s: one character replaced, removed
\* or added.
Mutations(s, alphabet) ==
    UNION {{[s EXCEPT ![i] = c] : c \in alphabet \ {s[i]}} : i \in DOMAIN s}
    \cup {Without(s, i) : i \in DOMAIN s}
    \cup {WithBefore(s, i, c) : i \in 1..(Len(s) + 1), c \in alphabet}

\* Secrets a deployment may configure, and the fields of the notifications
\* the gateway signs with them.
Secrets == {MIDTRANS_SERVER_KEY, <<"B", "K">>}
BaseIds == {OrderA, OrderB, <<"A", "B">>}
BaseCodes == {Code200, <<"2", "0", "1">>}
BaseAmounts == {Amount10, <<"1", "0", "0">>}

\* The calls verifySignature is probed with under the secret key, each with
\* the call it was made from: the gateway's own signature for the fields,
\* that signature with one field or the signature itself one character away,
\* and the digest of the same four strings concatenated in another order.
Probes(key) ==
    UNION
      {LET sig == sha512hex(o \o sc \o ga \o key)
           probed ==
             {<<o, sc, ga, sig>>}
             \cup {<<m, sc, ga, sig>> : m \in Mutations(o, FieldAlphabet)}
             \cup {<<o, m, ga, sig>> : m \in Mutations(sc, FieldAlphabet)}
             \cup {<<o, sc, m, sig>> : m \in Mutations(ga, FieldAlphabet)}
             \cup {<<o, sc, ga, m>> : m \in Mutations(sig, SignatureAlphabet)}
             \cup {<<o, sc, ga, sha512hex(sc \o o \o ga \o key)>>,
                   <<o, sc, ga, sha512hex(o \o ga \o sc \o key)>>,
                   <<o, sc, ga, sha512hex(key \o o \o sc \o ga)>>}
       IN  {[signed |-> <<o, sc, ga, sig>>, probe |-> p] : p \in probed}
        : o \in BaseIds, sc \in BaseCodes, ga \in BaseAmounts}

ProbeNotification(p) ==
    Notification("undefined", "undefined", p[1], p[2], p[3], p[4])

\* The server runs with one of the secrets; request h2 carries a
\* notification as the gateway signed it and request h1 that notification
\* or one of the probes made from it.  No table is involved.
VerifyInit ==
    /\ server \in
         {[state |-> "listening", supabaseUrl |-> "set",
           supabaseServiceKey |-> "set", serverKey |-> k] : k \in Secrets}
    /\ payments =
         [r \in PayRows |->
             [transaction_id |-> IF r = "p1" THEN OrderA ELSE OrderB,
              quiz_result_id |-> IF r = "p1" THEN "q1" ELSE "q2",
              user_id |-> "u1", status |-> "pending", payment_date |-> 0]]
    /\ quiz_results = [q \in QuizIds |-> [is_premium |-> "false"]]
    /\ handlers \in
         {[h \in Procs |->
             IF h = "h1" THEN Entered(ProbeNotification(p.probe))
             ELSE Entered(ProbeNotification(p.signed))]
            : p \in Probes(server.serverKey)}

\* Line 207 on its own: the call of verifySignature with the four fields and
\* the result it returns.
Verified(hs) ==
    LET n == hs.notif IN
    [hs EXCEPT !.pc = "verified",
               !.isValidSignature =
                  IF verifySignature(n.order_id, n.status_code,
                                     n.gross_amount, n.signature_key)
                  THEN "true" ELSE "false"]

Verify(h) ==
    /\ handlers[h].pc = "idle"
    /\ handlers[h].body = "object"
    /\ handlers' = [handlers EXCEPT ![h] = Verified(handlers[h])]
    /\ UNCHANGED <<payments, quiz_results, server>>

VerifyNext == \E h \in Procs : Verify(h)

VerifySpec == VerifyInit /\ [][VerifyNext]_vars

-----------------------------------------------------------------------------
(* Vocabulary of the properties *)

\* The signature the gateway's scheme prescribes for the notification's own
\* order_id, status_code and gross_amount, all four fields being there.
ValidlySigned(n) ==
    /\ n.order_id \notin {ABSENT, EMPTY}
    /\ n.status_code \notin {ABSENT, EMPTY}
    /\ n.gross_amount \notin {ABSENT, EMPTY}
    /\ n.signature_key =
         HexEncode(n.order_id \o n.status_code \o n.gross_amount \o <<"K">>)

SuccessfulBucket(n) ==
    \/ n.transaction_status = "settlement"
    \/ n.transaction_status = "capture" /\ n.fraud_status = "accept"

FailedBucket(n) == n.transaction_status \in {"cancel", "deny", "expire"}

PendingBucket(n) == n.transaction_status = "pending"

Outcome(r) ==
    CASE r = [status |-> 200, body |-> "Notification processed successfully"]
           -> "accepted"
      [] r = [status |-> 400, body |-> "Missing required fields"]
           -> "bad_request"
      [] r = [status |-> 400, body |-> "Invalid signature"]
           -> "invalid_signature"
      [] r = [status |-> 404, body |-> "Payment record not found"]
           -> "not_found"
      [] r = [status |-> 500, body |-> "Failed to update quiz result"]
           -> "update_failed"
      [] r = [status |-> 500, body |-> "Internal server error"]
           -> "internal_error"
      [] OTHER -> "none"

Ops(hs) == [i \in 1..Len(hs.calls) |-> hs.calls[i].op]
Replies(hs) == [i \in 1..Len(hs.calls) |-> hs.calls[i].reply]

Done(h) == handlers[h].pc = "done"

LastCall(hs) == hs.calls[Len(hs.calls)]

AllOk(hs) == \A i \in 1..Len(hs.calls) : hs.calls[i].reply = "ok"

\* Every other request has yet to arrive.
Alone(h) == \A g \in Procs \ {h} : handlers[g].pc = "idle"

\* The step is one of request h.
StepOf(h) == handlers'[h] # handlers[h]

StoreUnchanged == UNCHANGED <<payments, quiz_results>>

\* The payment records order_id resolves to, and the quiz results they
\* reference.
RowsOf(orderId) == {r \in PayRows : payments[r].transaction_id = orderId}
QuizOf(orderId) == {payments[r].quiz_result_id : r \in RowsOf(orderId)}

-----------------------------------------------------------------------------
(* C1 *)

\* C1: whenever verifySignature has returned false for a request, whatever
\* its transaction_status and fraud_status and whatever the tables hold, the
\* request is answered 400 "Invalid signature", it has issued no store call,
\* and the step that handled it changed no payment and no quiz-result record.
C1_InvalidSignatureRejected ==
    /\ [](\A h \in Procs :
            handlers[h].isValidSignature = "false" =>
                /\ Done(h)
                /\ Outcome(handlers[h].response) = "invalid_signature"
                /\ handlers[h].response.status = 400
                /\ handlers[h].calls = <<>>)
    /\ [][\A h \in Procs :
            (StepOf(h) /\ handlers'[h].isValidSignature = "false") =>
                StoreUnchanged]_vars

\* A settlement notification carrying the signature of another order has
\* been turned away.
C1_Witness ==
    \E h \in Procs :
        /\ Done(h)
        /\ handlers[h].isValidSignature = "false"
        /\ handlers[h].notif.transaction_status = "settlement"
        /\ handlers[h].notif.order_id = OrderA
        /\ handlers[h].notif.signature_key = Signed(OrderB, Code200, Amount10)
        /\ handlers[h].response = InvalidSignature400

-----------------------------------------------------------------------------
(* C2 *)

\* C2: in every step of every interleaving, a quiz result whose record
\* changes had is_premium false or null and gets is_premium true, the step is
\* one of a request whose notification is validly signed, passed
\* verifySignature and is settlement or capture with fraud_status accept; and
\* an is_premium that is true stays true.
C2_PremiumOnlyRises ==
    [][\A q \in QuizIds :
         /\ quiz_results'[q] # quiz_results[q] =>
               /\ quiz_results[q].is_premium \in {"null", "false"}
               /\ quiz_results'[q].is_premium = "true"
               /\ \E h \in Procs :
                     /\ StepOf(h)
                     /\ handlers[h].isValidSignature = "true"
                     /\ ValidlySigned(handlers[h].notif)
                     /\ SuccessfulBucket(handlers[h].notif)
         /\ quiz_results[q].is_premium = "true" =>
               quiz_results'[q].is_premium = "true"]_vars

\* A settlement for order A has raised the flag of its quiz result while a
\* capture that was not accepted and an expire were handled for the order.
C2_Witness ==
    \E h, g \in Procs :
        /\ h # g
        /\ Ops(handlers[h]) = <<"select_payment", "update_quiz_result">>
        /\ Replies(handlers[h]) = <<"ok", "ok">>
        /\ quiz_results[handlers[h].paymentData.quiz_result_id].is_premium = "true"
        /\ handlers[g].notif.order_id = handlers[h].notif.order_id
        /\ handlers[g].notif.transaction_status = "expire"
        /\ handlers[g].pc = "done"

-----------------------------------------------------------------------------
(* C3 *)

\* C3: a request with a validly signed settlement notification whose order_id
\* resolves to one payment record, and whose store calls all return without
\* error, issues the lookup, the premium update and the payment update in
\* that order and is answered 200; its premium update leaves is_premium of
\* the referenced quiz result true and its payment update leaves the
\* payment's status completed; handled on its own, it ends with both in
\* place.
C3_SettlementCompletes ==
    /\ [](\A h \in Procs :
            LET hs == handlers[h] IN
            (/\ Done(h)
             /\ hs.notif.transaction_status = "settlement"
             /\ ValidlySigned(hs.notif)
             /\ Cardinality(RowsOf(hs.notif.order_id)) = 1
             /\ AllOk(hs)) =>
                /\ Outcome(hs.response) = "accepted"
                /\ hs.response.status = 200
                /\ Ops(hs) = <<"select_payment", "update_quiz_result",
                               "update_payment">>
                /\ Alone(h) =>
                      /\ \A r \in RowsOf(hs.notif.order_id) :
                            payments[r].status = "completed"
                      /\ \A q \in QuizOf(hs.notif.order_id) :
                            quiz_results[q].is_premium = "true")
    /\ [][\A h \in Procs :
            LET hs == handlers[h] IN
            (/\ StepOf(h)
             /\ hs.notif.transaction_status = "settlement"
             /\ ValidlySigned(hs.notif)
             /\ Cardinality(RowsOf(hs.notif.order_id)) = 1
             /\ LastCall(handlers'[h]).reply = "ok") =>
                /\ hs.pc = "updateQuiz" =>
                      \A q \in QuizOf(hs.notif.order_id) :
                          quiz_results'[q].is_premium = "true"
                /\ hs.pc = "updateCompleted" =>
                      \A r \in RowsOf(hs.notif.order_id) :
                          payments'[r].status = "completed"]_vars

\* A settlement for order B has been handled to the end while the quiz result
\* started without the flag.
C3_Witness ==
    \E h \in Procs :
        /\ Done(h)
        /\ handlers[h].notif.transaction_status = "settlement"
        /\ handlers[h].notif.order_id = OrderB
        /\ Ops(handlers[h]) =
             <<"select_payment", "update_quiz_result", "update_payment">>
        /\ AllOk(handlers[h])
        /\ handlers[h].response = Ok200
        /\ payments["p2"].transaction_id = OrderB
        /\ payments["p2"].status = "completed"
        /\ payments["p2"].payment_date \in Instants
        /\ quiz_results["q2"].is_premium = "true"

-----------------------------------------------------------------------------
(* C4 *)

\* C4: a request whose notification lacks order_id, status_code, gross_amount
\* or signature_key is answered 400 "Missing required fields" at once:
\* verifySignature has not been called, no store call has been issued, and
\* the step changed no record.
C4_MissingFieldRejected ==
    /\ [](\A h \in Procs :
            LET hs == handlers[h] IN
            (/\ hs.body = "object"
             /\ \/ hs.notif.order_id = ABSENT
                \/ hs.notif.status_code = ABSENT
                \/ hs.notif.gross_amount = ABSENT
                \/ hs.notif.signature_key = ABSENT) =>
                /\ Done(h)
                /\ Outcome(hs.response) = "bad_request"
                /\ hs.response.status = 400
                /\ hs.isValidSignature = "unset"
                /\ hs.calls = <<>>)
    /\ [][\A h \in Procs :
            (StepOf(h) /\ Outcome(handlers'[h].response) = "bad_request") =>
                StoreUnchanged]_vars

\* An otherwise genuine settlement without gross_amount has been turned away.
C4_Witness ==
    \E h \in Procs :
        /\ Done(h)
        /\ handlers[h].notif.transaction_status = "settlement"
        /\ handlers[h].notif.order_id = OrderA
        /\ handlers[h].notif.gross_amount = ABSENT
        /\ handlers[h].notif.signature_key = Signed(OrderA, Code200, Amount10)
        /\ handlers[h].response = MissingFields400

-----------------------------------------------------------------------------
(* C5 *)

\* C5: a request with a validly signed settlement, or capture with
\* fraud_status accept, whose lookup returned an error or whose order_id
\* does not resolve to exactly one payment record is answered 404 "Payment
\* record not found", the lookup is the only store call it has issued, and
\* the step that answered changed no record.
C5_LookupFailureNotFound ==
    /\ [](\A h \in Procs :
            LET hs == handlers[h] IN
            (/\ ValidlySigned(hs.notif)
             /\ SuccessfulBucket(hs.notif)
             /\ hs.calls # <<>>
             /\ \/ hs.calls[1].reply = "error"
                \/ /\ hs.calls[1].reply = "ok"
                   /\ Cardinality(RowsOf(hs.notif.order_id)) # 1) =>
                /\ Done(h)
                /\ Outcome(hs.response) = "not_found"
                /\ hs.response.status = 404
                /\ Ops(hs) = <<"select_payment">>)
    /\ [][\A h \in Procs :
            (StepOf(h) /\ Outcome(handlers'[h].response) = "not_found") =>
                StoreUnchanged]_vars

\* Two payment records carry order A, and a settlement and an accepted
\* capture for it, each with a lookup that ran, were both answered 404.
C5_Witness ==
    \E h, g \in Procs :
        /\ h # g
        /\ Cardinality(RowsOf(OrderA)) = 2
        /\ handlers[h].notif.order_id = OrderA
        /\ handlers[g].notif.order_id = OrderA
        /\ handlers[h].notif.transaction_status = "settlement"
        /\ handlers[g].notif.transaction_status = "capture"
        /\ Replies(handlers[h]) = <<"ok">>
        /\ Replies(handlers[g]) = <<"ok">>
        /\ handlers[h].response = NotFound404
        /\ handlers[g].response = NotFound404

-----------------------------------------------------------------------------
(* C6 *)

\* C6: a request whose premium update returned an error is answered 500
\* "Failed to update quiz result", which is not the answer of a payment that
\* was not found; the lookup and the premium update are the only store calls
\* it has issued, and the step that answered changed no payment record (status
\* and payment_date) and no quiz result.
C6_QuizUpdateFailureAborts ==
    /\ [](\A h \in Procs :
            LET hs == handlers[h] IN
            (/\ Len(hs.calls) >= 2
             /\ hs.calls[2].op = "update_quiz_result"
             /\ hs.calls[2].reply = "error") =>
                /\ Done(h)
                /\ Outcome(hs.response) = "update_failed"
                /\ hs.response.status = 500
                /\ hs.response # NotFound404
                /\ Ops(hs) = <<"select_payment", "update_quiz_result">>)
    /\ [][\A h \in Procs :
            (StepOf(h) /\ Outcome(handlers'[h].response) = "update_failed") =>
                StoreUnchanged]_vars

\* The premium update of a settlement for order A failed: the payment is
\* still pending and unstamped.
C6_Witness ==
    \E h \in Procs :
        /\ Done(h)
        /\ handlers[h].notif.order_id = OrderA
        /\ Replies(handlers[h]) = <<"ok", "error">>
        /\ handlers[h].response = QuizUpdateFailed500
        /\ payments["p1"].status = "pending"
        /\ payments["p1"].payment_date = 0
        /\ quiz_results["q1"].is_premium = "false"

-----------------------------------------------------------------------------
(* C7 *)

\* C7: a request with a validly signed cancel, deny or expire notification
\* whose order_id matches a payment record, and whose update returns without
\* error, issues the payment update and nothing else and is answered 200;
\* the update leaves the status of the matching records failed and changes
\* no quiz result, and no step of the request changes a quiz result.
C7_FailedPath ==
    /\ [](\A h \in Procs :
            LET hs == handlers[h] IN
            (/\ Done(h)
             /\ ValidlySigned(hs.notif)
             /\ FailedBucket(hs.notif)
             /\ RowsOf(hs.notif.order_id) # {}
             /\ AllOk(hs)) =>
                /\ Outcome(hs.response) = "accepted"
                /\ hs.response.status = 200
                /\ Ops(hs) = <<"update_payment">>
                /\ Alone(h) =>
                      \A r \in RowsOf(hs.notif.order_id) :
                          payments[r].status = "failed")
    /\ [][\A h \in Procs :
            LET n == handlers'[h].notif IN
            (StepOf(h) /\ ValidlySigned(n) /\ FailedBucket(n)) =>
                /\ UNCHANGED quiz_results
                /\ (/\ handlers[h].pc # "idle"
                    /\ LastCall(handlers'[h]).reply = "ok") =>
                      \A r \in RowsOf(n.order_id) :
                          /\ payments'[r].status = "failed"
                          /\ payments'[r].payment_date =
                                payments[r].payment_date]_vars

\* A deny for order A has turned a completed payment to failed; the quiz
\* result keeps its flag.
C7_Witness ==
    \E h \in Procs :
        /\ Done(h)
        /\ Alone(h)
        /\ handlers[h].notif.transaction_status = "deny"
        /\ handlers[h].notif.order_id = OrderA
        /\ Ops(handlers[h]) = <<"update_payment">>
        /\ AllOk(handlers[h])
        /\ handlers[h].response = Ok200
        /\ payments["p1"].status = "failed"
        /\ quiz_results["q1"].is_premium = "true"

-----------------------------------------------------------------------------
(* C8 *)

\* The notification with transaction_status settlement and the other fields
\* of n.
AsSettlement(n) == [n EXCEPT !.transaction_status = "settlement"]

\* C8: at every point of a request with a validly signed capture whose
\* fraud_status is accept, the request stands where the request with the
\* settlement of the same other fields stands (same position, same store
\* calls and replies so far, same looked-up row, same response), and whatever
\* the awaited store call returns, the two move to the same position, issue
\* the same call, leave the same tables and get the same response; a validly
\* signed capture with any other fraud_status, absent included, is answered
\* 200 without a store call and without a change of a record.
C8_CaptureAcceptIsSettlement ==
    /\ [](\A h \in Procs :
            LET hs == handlers[h]
                n == hs.notif
                twin == [hs EXCEPT !.notif = AsSettlement(n)]
            IN  (/\ hs.pc # "idle"
                 /\ ValidlySigned(n)
                 /\ n.transaction_status = "capture"
                 /\ n.fraud_status = "accept") =>
                    /\ hs.pc \in {"selectPayment", "updateQuiz",
                                  "updateCompleted", "done"}
                    /\ Len(hs.calls) = 0 =>
                          Received(AsSettlement(n)) = twin
                    /\ \A reply \in StoreReplies, now \in Instants :
                          LET mine == Step(hs, payments, quiz_results, reply, now)
                              other == Step(twin, payments, quiz_results, reply, now)
                          IN  /\ other.hs = [mine.hs EXCEPT !.notif = AsSettlement(n)]
                              /\ other.payments = mine.payments
                              /\ other.quiz_results = mine.quiz_results)
    /\ [](\A h \in Procs :
            LET hs == handlers[h] IN
            (/\ hs.pc # "idle"
             /\ ValidlySigned(hs.notif)
             /\ hs.notif.transaction_status = "capture"
             /\ hs.notif.fraud_status # "accept") =>
                /\ Done(h)
                /\ Outcome(hs.response) = "accepted"
                /\ hs.calls = <<>>)
    /\ [][\A h \in Procs :
            LET n == handlers'[h].notif IN
            (/\ StepOf(h)
             /\ ValidlySigned(n)
             /\ n.transaction_status = "capture"
             /\ n.fraud_status # "accept") =>
                StoreUnchanged]_vars

\* An accepted capture for order B has run the whole successful path.
C8_Witness ==
    \E h \in Procs :
        /\ Done(h)
        /\ handlers[h].notif.transaction_status = "capture"
        /\ handlers[h].notif.fraud_status = "accept"
        /\ handlers[h].notif.order_id = OrderB
        /\ Ops(handlers[h]) =
             <<"select_payment", "update_quiz_result", "update_payment">>
        /\ AllOk(handlers[h])
        /\ handlers[h].response = Ok200
        /\ payments["p2"].status = "completed"
        /\ quiz_results["q2"].is_premium = "true"

-----------------------------------------------------------------------------
(* C9 *)

\* C9: a request whose payment update returned an error, as one whose
\* payment update ran, is answered 200.  On the successful path, after a
\* premium update that succeeded, the step of the payment update that
\* returned an error leaves every payment record as it was and the
\* referenced quiz result has is_premium true.  On the cancel / deny /
\* expire and pending paths the step of an update that returned an error,
\* or that ran and matched no record, changes no record.
C9_PaymentUpdateFailureSwallowed ==
    /\ [](\A h \in Procs :
            LET hs == handlers[h] IN
            (/\ hs.calls # <<>>
             /\ LastCall(hs).op = "update_payment"
             /\ LastCall(hs).reply \in {"ok", "error"}) =>
                /\ Done(h)
                /\ Outcome(hs.response) = "accepted"
                /\ hs.response.status = 200
                /\ Replies(hs) = <<"ok", "ok", "error">> =>
                      \A q \in QuizOf(hs.notif.order_id) :
                          quiz_results[q].is_premium = "true")
    /\ [][\A h \in Procs :
            LET hs == handlers[h] IN
            (/\ StepOf(h)
             /\ hs.pc \in {"updateCompleted", "updateFailed", "updatePending"}
             /\ \/ LastCall(handlers'[h]).reply = "error"
                \/ /\ hs.pc # "updateCompleted"
                   /\ LastCall(handlers'[h]).reply = "ok"
                   /\ RowsOf(hs.notif.order_id) = {}) =>
                /\ StoreUnchanged
                /\ Outcome(handlers'[h].response) = "accepted"]_vars

\* The status update of a settlement for order A failed after its premium
\* update, and the update of a pending notification for order A failed too:
\* both were answered 200 and the payment is still failed.
C9_Witness ==
    \E h, g \in Procs :
        /\ handlers[h].notif.order_id = OrderA
        /\ handlers[h].notif.transaction_status = "settlement"
        /\ Replies(handlers[h]) = <<"ok", "ok", "error">>
        /\ handlers[h].response = Ok200
        /\ handlers[g].notif.order_id = OrderA
        /\ handlers[g].notif.transaction_status = "pending"
        /\ Replies(handlers[g]) = <<"error">>
        /\ handlers[g].response = Ok200
        /\ payments["p1"].status = "failed"
        /\ payments["p1"].payment_date = 0
        /\ quiz_results["q1"].is_premium = "true"

-----------------------------------------------------------------------------
(* C10 *)

\* C10: a request with a validly signed notification whose transaction_status
\* is none of settlement, capture with fraud_status accept, cancel, deny,
\* expire and pending (absent included) is answered 200 without having issued
\* a store call, and the step changed no record.
C10_UnrecognizedAcknowledged ==
    /\ [](\A h \in Procs :
            LET hs == handlers[h] IN
            (/\ hs.pc # "idle"
             /\ ValidlySigned(hs.notif)
             /\ ~SuccessfulBucket(hs.notif)
             /\ ~FailedBucket(hs.notif)
             /\ ~PendingBucket(hs.notif)) =>
                /\ Done(h)
                /\ Outcome(hs.response) = "accepted"
                /\ hs.response.status = 200
                /\ hs.calls = <<>>)
    /\ [][\A h \in Procs :
            LET n == handlers'[h].notif IN
            (/\ StepOf(h)
             /\ ValidlySigned(n)
             /\ ~SuccessfulBucket(n)
             /\ ~FailedBucket(n)
             /\ ~PendingBucket(n)) =>
                StoreUnchanged]_vars

\* A genuine refund notification has been acknowledged.
C10_Witness ==
    \E h \in Procs :
        /\ Done(h)
        /\ handlers[h].notif.transaction_status = "refund"
        /\ handlers[h].isValidSignature = "true"
        /\ handlers[h].response = Ok200
        /\ handlers[h].calls = <<>>

-----------------------------------------------------------------------------
(* C11 *)

\* C11: a request with a validly signed pending notification issues the
\* payment update and nothing else and is answered 200 whatever the update
\* returns; when the update returns without error it leaves every payment
\* record of the order with status pending, whatever the status was before
\* (completed and failed included) and whether or not another request wrote
\* the record in between, keeps the completion timestamp, and no step of the
\* request changes a quiz result.
C11_PendingOverwrites ==
    /\ [](\A h \in Procs :
            LET hs == handlers[h] IN
            (/\ hs.pc # "idle"
             /\ ValidlySigned(hs.notif)
             /\ PendingBucket(hs.notif)) =>
                /\ hs.pc \in {"updatePending", "done"}
                /\ hs.pc = "updatePending" => hs.calls = <<>>
                /\ hs.pc = "done" =>
                      /\ Ops(hs) = <<"update_payment">>
                      /\ Replies(hs) \in {<<"ok">>, <<"error">>} =>
                            Outcome(hs.response) = "accepted"
                      /\ (Alone(h) /\ AllOk(hs)) =>
                            \A r \in RowsOf(hs.notif.order_id) :
                                payments[r].status = "pending")
    /\ [][\A h \in Procs :
            LET n == handlers'[h].notif IN
            (StepOf(h) /\ ValidlySigned(n) /\ PendingBucket(n)) =>
                /\ UNCHANGED quiz_results
                /\ \A r \in PayRows :
                      /\ payments'[r].payment_date = payments[r].payment_date
                      /\ r \notin RowsOf(n.order_id) =>
                            payments'[r] = payments[r]
                /\ (/\ handlers[h].pc # "idle"
                    /\ LastCall(handlers'[h]).reply = "ok") =>
                      \A r \in RowsOf(n.order_id) :
                          payments'[r].status = "pending"]_vars

\* The settlement for order A arrived first and completed the payment at an
\* instant of the run; the pending notification for the same order arrived
\* after it and has turned the completed payment back to pending, the
\* timestamp and the premium flag staying as the settlement left them.
C11_Witness ==
    /\ Done("h1")
    /\ Done("h2")
    /\ handlers["h1"].notif.transaction_status = "settlement"
    /\ handlers["h1"].notif.order_id = OrderA
    /\ Ops(handlers["h1"]) =
         <<"select_payment", "update_quiz_result", "update_payment">>
    /\ AllOk(handlers["h1"])
    /\ handlers["h2"].notif.transaction_status = "pending"
    /\ handlers["h2"].notif.order_id = OrderA
    /\ ValidlySigned(handlers["h2"].notif)
    /\ Ops(handlers["h2"]) = <<"update_payment">>
    /\ AllOk(handlers["h2"])
    /\ handlers["h2"].response = Ok200
    /\ payments["p1"].status = "pending"
    /\ payments["p1"].payment_date \in Instants
    /\ quiz_results["q1"].is_premium = "true"

-----------------------------------------------------------------------------
(* C12 *)

\* The hex digest the scheme prescribes for the three fields under the
\* configured secret.
DigestOf(id, code, amount) == HexEncode(id \o code \o amount \o server.serverKey)

\* s and t are one character apart: one character replaced, removed or added.
OneCharacterApart(s, t) ==
    \/ /\ Len(s) = Len(t)
       /\ Cardinality({i \in DOMAIN s : s[i] # t[i]}) = 1
    \/ /\ Len(s) = Len(t) + 1
       /\ \E i \in DOMAIN s : Without(s, i) = t
    \/ /\ Len(t) = Len(s) + 1
       /\ \E i \in DOMAIN t : Without(t, i) = s

\* C12: every call of verifySignature returns a boolean; it returns true
\* exactly when the received signature is, character for character, the hex
\* digest of order id, status code, gross amount and secret concatenated in
\* that order; so it returns true for the gateway's own signature and false
\* when the order id, the status code, the gross amount or the signature is
\* one character away from what was signed; and the call changes no record
\* and no configuration.
C12_VerifySignatureExact ==
    /\ [](\A h \in Procs :
            LET hs == handlers[h]
                n == hs.notif
            IN  hs.pc = "verified" =>
                  /\ hs.isValidSignature \in {"true", "false"}
                  /\ hs.isValidSignature = "true" <=>
                        n.signature_key =
                           DigestOf(n.order_id, n.status_code, n.gross_amount)
                  /\ \A x \in BaseIds :
                        (/\ OneCharacterApart(n.order_id, x)
                         /\ n.signature_key =
                               DigestOf(x, n.status_code, n.gross_amount)) =>
                            hs.isValidSignature = "false"
                  /\ \A x \in BaseCodes :
                        (/\ OneCharacterApart(n.status_code, x)
                         /\ n.signature_key =
                               DigestOf(n.order_id, x, n.gross_amount)) =>
                            hs.isValidSignature = "false"
                  /\ \A x \in BaseAmounts :
                        (/\ OneCharacterApart(n.gross_amount, x)
                         /\ n.signature_key =
                               DigestOf(n.order_id, n.status_code, x)) =>
                            hs.isValidSignature = "false"
                  /\ OneCharacterApart(
                        n.signature_key,
                        DigestOf(n.order_id, n.status_code, n.gross_amount)) =>
                            hs.isValidSignature = "false")
    /\ [][\A h \in Procs :
            (handlers[h].pc = "idle" /\ handlers'[h].pc = "verified") =>
                /\ StoreUnchanged
                /\ UNCHANGED server
                /\ handlers'[h].notif = handlers[h].notif]_vars

\* The gateway's signature for order AB was accepted, and the same signature
\* was refused for the order id with its last character removed.
C12_Witness ==
    /\ handlers["h2"].pc = "verified"
    /\ handlers["h2"].notif.order_id = <<"A", "B">>
    /\ handlers["h2"].notif.signature_key =
         DigestOf(<<"A", "B">>, Code200, Amount10)
    /\ handlers["h2"].isValidSignature = "true"
    /\ handlers["h1"].pc = "verified"
    /\ handlers["h1"].notif.order_id = OrderA
    /\ handlers["h1"].notif.signature_key = handlers["h2"].notif.signature_key
    /\ handlers["h1"].notif.status_code = Code200
    /\ handlers["h1"].notif.gross_amount = Amount10
    /\ handlers["h1"].isValidSignature = "false"

-----------------------------------------------------------------------------
(* C13 *)

Outcomes ==
    {"accepted", "bad_request", "invalid_signature", "not_found",
     "update_failed", "internal_error"}

IsNotification(hs) == hs.route = "POST /payment-notification"

Awaiting(hs) == hs.pc \notin {"idle", "done"}

\* C13: in the runs in which every awaited store call comes back, every
\* notification request that awaits a store call is eventually answered; a
\* notification request has a response exactly when it is done, the response
\* is one of the six outcomes (accepted only with 200, bad_request and
\* invalid_signature with 400, not_found with 404, update_failed and
\* internal_error with 500), and once given it never changes and the request
\* issues no further call; a store call that throws, or a request whose body
\* is undefined, is answered internal_error.
C13_OneOutcome ==
    /\ \A h \in Procs : Awaiting(handlers[h]) ~> Done(h)
    /\ [](\A h \in Procs :
            LET hs == handlers[h] IN
            IsNotification(hs) =>
                /\ hs.response # NoResponse <=> hs.pc = "done"
                /\ hs.pc = "done" =>
                      /\ Outcome(hs.response) \in Outcomes
                      /\ hs.response.status =
                            CASE Outcome(hs.response) = "accepted" -> 200
                              [] Outcome(hs.response) \in
                                    {"bad_request", "invalid_signature"} -> 400
                              [] Outcome(hs.response) = "not_found" -> 404
                              [] OTHER -> 500
                      /\ hs.body = "undefined" =>
                            Outcome(hs.response) = "internal_error"
                      /\ (hs.calls # <<>> /\ LastCall(hs).reply = "throw") =>
                            Outcome(hs.response) = "internal_error")
    /\ [][\A h \in Procs :
            /\ handlers[h].pc = "done" => handlers'[h] = handlers[h]
            /\ (/\ StepOf(h)
                /\ IsNotification(handlers'[h])
                /\ handlers'[h].calls # <<>>
                /\ LastCall(handlers'[h]).reply = "throw") =>
                  /\ handlers'[h].pc = "done"
                  /\ Outcome(handlers'[h].response) = "internal_error"]_vars

\* One request came without a body and was answered internal_error at once;
\* the other went through the lookup and the premium update and was answered
\* internal_error when its payment update threw.
C13_Witness ==
    /\ Done("h1")
    /\ handlers["h1"].body = "undefined"
    /\ Outcome(handlers["h1"].response) = "internal_error"
    /\ Done("h2")
    /\ Replies(handlers["h2"]) = <<"ok", "ok", "throw">>
    /\ Outcome(handlers["h2"].response) = "internal_error"
    /\ quiz_results["q1"].is_premium = "true"

-----------------------------------------------------------------------------
(* C14 *)

\* The tables and the two requests after the awaited call of request first
\* has come back with reply.first at instant now.first, and then the awaited
\* call of request second with reply.second at now.second.
InOrder(first, second, reply, now) ==
    LET a == Step(handlers[first], payments, quiz_results,
                  reply[first], now[first])
        b == Step(handlers[second], a.payments, a.quiz_results,
                  reply[second], now[second])
    IN  [payments |-> b.payments, quiz_results |-> b.quiz_results,
         handlers |-> [h \in {first, second} |->
                          IF h = first THEN a.hs ELSE b.hs]]

\* What request h does when it runs with no other request in its way.
OnItsOwn(h, reply, now) ==
    Step(handlers[h], payments, quiz_results, reply[h], now[h])

\* C14: whenever two requests for different order ids both await a store
\* call, then whatever the two calls come back with, letting them come back
\* in one order or in the other leaves the same tables and the same two
\* requests (position, calls, looked-up row, response), and each request is
\* left as it would be had the other not moved; so the steps of two such
\* requests can be reordered into one run after the other, in either order,
\* without a change of an outcome or of a record.
C14_DifferentOrdersIndependent ==
    \A h, g \in Procs :
        (/\ h # g
         /\ Awaiting(handlers[h])
         /\ Awaiting(handlers[g])
         /\ handlers[h].notif.order_id # handlers[g].notif.order_id) =>
            \A reply \in [{h, g} -> StoreReplies], now \in [{h, g} -> Instants] :
                /\ InOrder(h, g, reply, now) = InOrder(g, h, reply, now)
                /\ InOrder(h, g, reply, now).handlers[g] =
                      OnItsOwn(g, reply, now).hs
                /\ InOrder(g, h, reply, now).handlers[h] =
                      OnItsOwn(h, reply, now).hs

\* The settlement for order A awaits its payment update while the
\* settlement for order B, which has its own payment and quiz result,
\* awaits its premium update.
C14_Witness ==
    /\ handlers["h1"].pc = "updateCompleted"
    /\ handlers["h1"].notif.order_id = OrderA
    /\ handlers["h2"].pc = "updateQuiz"
    /\ handlers["h2"].notif.order_id = OrderB
    /\ handlers["h2"].paymentData.quiz_result_id = "q2"
    /\ payments["p2"].transaction_id = OrderB
    /\ payments["p1"].status = "pending"
    /\ payments["p2"].status = "failed"

-----------------------------------------------------------------------------
(* C15 *)

\* The records of the two tables, and the fields of a payment no handler
\* writes.
Identity(pay) ==
    [r \in DOMAIN pay |->
        [transaction_id |-> pay[r].transaction_id,
         quiz_result_id |-> pay[r].quiz_result_id,
         user_id |-> pay[r].user_id]]

\* C15: the two tables always hold the same records, each with the
\* transaction id, quiz result and user it started with; every step that
\* changes a record is the return of a store call of a notification request
\* whose signature was verified, and it changes at most the status and the
\* completion timestamp of the payments whose transaction id is the
\* request's order_id and the premium flag of the quiz result of the payment
\* the request looked up; the requests to GET /health and to
\* GET /payment-status/:orderId change nothing.
C15_Frame ==
    /\ [](/\ DOMAIN payments = PayRows
          /\ DOMAIN quiz_results = QuizIds)
    /\ [][/\ Identity(payments') = Identity(payments)
          /\ ~StoreUnchanged =>
                \E h \in Procs :
                    LET hs == handlers[h]
                        n == hs.notif
                    IN  /\ StepOf(h)
                        /\ \A g \in Procs \ {h} : ~StepOf(g)
                        /\ IsNotification(hs)
                        /\ Awaiting(hs)
                        /\ hs.isValidSignature = "true"
                        /\ ValidlySigned(n)
                        /\ \A r \in PayRows \ RowsOf(n.order_id) :
                              payments'[r] = payments[r]
                        /\ \A q \in QuizIds \ QuizOf(n.order_id) :
                              quiz_results'[q] = quiz_results[q]
                        /\ quiz_results' # quiz_results =>
                              /\ hs.paymentData.quiz_result_id
                                    \in QuizOf(n.order_id)
                              /\ \A q \in QuizIds \
                                          {hs.paymentData.quiz_result_id} :
                                    quiz_results'[q] = quiz_results[q]
          /\ \A h \in Procs :
                (StepOf(h) /\ ~IsNotification(handlers'[h])) => StoreUnchanged
         ]_vars

\* The payment of order A has been completed and stamped and its quiz
\* result made premium, the payment and the quiz result of order B are as
\* they were at the start, and a request to GET /payment-status has read the
\* payment of order A.
C15_Witness ==
    /\ Done("h1")
    /\ handlers["h1"].notif.order_id = OrderA
    /\ IsNotification(handlers["h1"])
    /\ Replies(handlers["h1"]) = <<"ok", "ok", "ok">>
    /\ payments["p1"].status = "completed"
    /\ payments["p1"].payment_date \in Instants
    /\ quiz_results["q1"].is_premium = "true"
    /\ payments["p2"].transaction_id = OrderB
    /\ payments["p2"].status = "pending"
    /\ payments["p2"].payment_date = 0
    /\ quiz_results["q2"].is_premium = "false"
    /\ Done("h2")
    /\ handlers["h2"].route = "GET /payment-status/:orderId"
    /\ handlers["h2"].response.status = 200

-----------------------------------------------------------------------------
(* C16 *)

\* A required configuration value is missing from the process.
ConfigurationMissing ==
    \/ server.supabaseUrl = "unset"
    \/ server.supabaseServiceKey = "unset"
    \/ server.serverKey \in {ABSENT, EMPTY}

\* C16: a process with a missing configuration value never listens and no
\* request is ever handled by it: its start-up step ends it, and an ended
\* process stays ended; a request is handled only by a listening process,
\* which has all three values; and no step changes the secret or the store
\* endpoint and credential.
C16_NoServiceWithoutConfiguration ==
    /\ [](ConfigurationMissing =>
            /\ server.state # "listening"
            /\ \A h \in Procs : handlers[h] = IdleHandler)
    /\ [](\A h \in Procs :
            handlers[h].pc # "idle" =>
                /\ server.state = "listening"
                /\ server.serverKey = <<"K">>)
    /\ [][/\ server'.serverKey = server.serverKey
          /\ server'.supabaseUrl = server.supabaseUrl
          /\ server'.supabaseServiceKey = server.supabaseServiceKey
          /\ server'.state # server.state =>
                /\ server.state = "starting"
                /\ server'.state =
                      IF ConfigurationMissing THEN "exited" ELSE "listening"
                /\ UNCHANGED <<payments, quiz_results, handlers>>]_vars

\* The process was started with the store endpoint and credential but
\* without the Midtrans server key, and has exited without having handled a
\* request.
C16_Witness ==
    /\ server.state = "exited"
    /\ server.supabaseUrl = "set"
    /\ server.supabaseServiceKey = "set"
    /\ server.serverKey = ABSENT
    /\ \A h \in Procs : handlers[h] = IdleHandler

-----------------------------------------------------------------------------
(* C17 *)

\* The call a request awaits, "none" when it awaits none.
AwaitedCall(hs) ==
    CASE hs.pc = "selectPayment" -> "select_payment"
      [] hs.pc = "updateQuiz" -> "update_quiz_result"
      [] hs.pc \in {"updateCompleted", "updateFailed", "updatePending"}
           -> "update_payment"
      [] OTHER -> "none"

\* The calls a request has issued so far, the awaited one last.
Issued(hs) ==
    IF AwaitedCall(hs) = "none" THEN Ops(hs)
    ELSE Append(Ops(hs), AwaitedCall(hs))

IsPrefix(s, t) == Len(s) <= Len(t) /\ \A i \in DOMAIN s : s[i] = t[i]

\* C17: the calls a notification request has issued are always an initial
\* part of lookup, quiz-result update, payment update, or the payment update
\* alone; every call but the last issued has returned ok, and the lookup
\* before a quiz-result update has resolved to one row; and a request that
\* has issued a call has all four required fields and a signature that was
\* verified.
C17_CallOrder ==
    /\ [](\A h \in Procs :
            LET hs == handlers[h] IN
            IsNotification(hs) =>
                /\ \/ IsPrefix(Issued(hs),
                               <<"select_payment", "update_quiz_result",
                                 "update_payment">>)
                   \/ Issued(hs) = <<"update_payment">>
                /\ \A i \in 1..(Len(Issued(hs)) - 1) :
                      hs.calls[i].reply = "ok"
                /\ Len(Issued(hs)) > 1 => hs.paymentData # NoData
                /\ Issued(hs) # <<>> =>
                      /\ hs.isValidSignature = "true"
                      /\ ValidlySigned(hs.notif))
    /\ [][\A h \in Procs :
            LET hs == handlers[h] IN
            (/\ IsNotification(hs)
             /\ Len(Issued(handlers'[h])) > Len(Issued(hs))) =>
                /\ Len(Issued(handlers'[h])) = Len(Issued(hs)) + 1
                /\ hs.pc = "idle" =>
                      /\ handlers'[h].isValidSignature = "true"
                      /\ ~ (\/ handlers'[h].notif.order_id \in {ABSENT, EMPTY}
                            \/ handlers'[h].notif.status_code \in {ABSENT, EMPTY}
                            \/ handlers'[h].notif.gross_amount \in {ABSENT, EMPTY}
                            \/ handlers'[h].notif.signature_key
                                  \in {ABSENT, EMPTY})
                /\ hs.pc # "idle" =>
                      /\ LastCall(handlers'[h]).reply = "ok"
                      /\ hs.pc = "selectPayment" =>
                            Cardinality(RowsOf(hs.notif.order_id)) = 1]_vars

\* A settlement request has had its lookup and its premium update return ok
\* and awaits its payment update.
C17_Witness ==
    \E h \in Procs :
        /\ handlers[h].pc = "updateCompleted"
        /\ Issued(handlers[h]) =
             <<"select_payment", "update_quiz_result", "update_payment">>
        /\ Replies(handlers[h]) = <<"ok", "ok">>
        /\ handlers[h].isValidSignature = "true"

-----------------------------------------------------------------------------
(* C18 *)

\* The status the payment update a request awaits writes.
StatusWritten(hs) ==
    CASE hs.pc = "updateCompleted" -> "completed"
      [] hs.pc = "updateFailed" -> "failed"
      [] hs.pc = "updatePending" -> "pending"
      [] OTHER -> "none"

AllReplyOk(h, g) == [x \in {h, g} |-> "ok"]

\* C18: nothing orders the store calls of two requests for the same order.
\* Whenever both await their payment update, then, the updates returning ok,
\* the payments of the order are left with the status of the request whose
\* update comes back last, whichever request arrived first, and both
\* requests are answered 200 either way.  Whenever both await the premium
\* update of the same quiz result, both updates are applied, one on top of
\* the other, and both requests go on to their payment update.
C18_SameOrderUncoordinated ==
    \A h, g \in Procs :
        LET hs == handlers[h]
            gs == handlers[g]
        IN  (h # g /\ hs.notif.order_id = gs.notif.order_id) =>
              /\ (StatusWritten(hs) # "none" /\ StatusWritten(gs) # "none") =>
                    \A now \in [{h, g} -> Instants] :
                        LET end == InOrder(h, g, AllReplyOk(h, g), now) IN
                        /\ \A r \in RowsOf(hs.notif.order_id) :
                              end.payments[r].status = StatusWritten(gs)
                        /\ end.handlers[h].response = Ok200
                        /\ end.handlers[g].response = Ok200
                        /\ LastCall(end.handlers[h]) =
                              [op |-> "update_payment", reply |-> "ok"]
                        /\ LastCall(end.handlers[g]) =
                              [op |-> "update_payment", reply |-> "ok"]
              /\ (/\ hs.pc = "updateQuiz"
                  /\ gs.pc = "updateQuiz"
                  /\ hs.paymentData = gs.paymentData) =>
                    \A now \in [{h, g} -> Instants] :
                        LET mid == OnItsOwn(h, AllReplyOk(h, g), now)
                            end == InOrder(h, g, AllReplyOk(h, g), now)
                        IN  /\ mid.quiz_results[hs.paymentData.quiz_result_id]
                                  .is_premium = "true"
                            /\ end.quiz_results = mid.quiz_results
                            /\ LastCall(end.handlers[h]) =
                                  [op |-> "update_quiz_result", reply |-> "ok"]
                            /\ LastCall(end.handlers[g]) =
                                  [op |-> "update_quiz_result", reply |-> "ok"]
                            /\ end.handlers[h].pc = "updateCompleted"
                            /\ end.handlers[g].pc = "updateCompleted"

\* The settlement for order A arrived first and the pending notification for
\* order A after it; both payment updates returned ok and both requests were
\* answered 200, and the payment is completed: the update of the request
\* that arrived later was applied first and overwritten.
C18_Witness ==
    /\ Done("h1")
    /\ Done("h2")
    /\ handlers["h1"].notif.order_id = OrderA
    /\ handlers["h1"].notif.transaction_status = "settlement"
    /\ Replies(handlers["h1"]) = <<"ok", "ok", "ok">>
    /\ handlers["h2"].notif.order_id = OrderA
    /\ handlers["h2"].notif.transaction_status = "pending"
    /\ Ops(handlers["h2"]) = <<"update_payment">>
    /\ Replies(handlers["h2"]) = <<"ok">>
    /\ handlers["h1"].response = Ok200
    /\ handlers["h2"].response = Ok200
    /\ payments["p1"].status = "completed"
    /\ payments["p2"].transaction_id = OrderB

\* Both settlements for order A have looked the payment up and await the
\* premium update of the same quiz result.
C18_BothAwaitPremiumUpdate ==
    /\ handlers["h1"].pc = "updateQuiz"
    /\ handlers["h2"].pc = "updateQuiz"
    /\ handlers["h1"].notif.order_id = OrderA
    /\ handlers["h2"].notif.order_id = OrderA
    /\ handlers["h1"].paymentData = handlers["h2"].paymentData

\* The settlement and the pending notification for order A both await their
\* payment update.
C18_BothAwaitPaymentUpdate ==
    /\ handlers["h1"].pc = "updateCompleted"
    /\ handlers["h2"].pc = "updatePending"
    /\ handlers["h1"].notif.order_id = OrderA
    /\ handlers["h2"].notif.order_id = OrderA

-----------------------------------------------------------------------------
(* C19 *)

\* A request carried from where it stands to its response, every store call
\* returning ok, the payment update at instant now.
RECURSIVE RunToEnd(_, _, _, _)
RunToEnd(hs, pay, quiz, now) ==
    IF hs.pc = "done"
    THEN [hs |-> hs, payments |-> pay, quiz_results |-> quiz]
    ELSE LET s == Step(hs, pay, quiz, "ok", now)
         IN  RunToEnd(s.hs, s.payments, s.quiz_results, now)

\* The notification n handled once more, on the tables as they are.
Again(n, now) == RunToEnd(Received(n), payments, quiz_results, now)

Unstamped(pay) == [r \in DOMAIN pay |-> [pay[r] EXCEPT !.payment_date = 0]]

Accepted(hs) ==
    /\ hs.pc = "done"
    /\ IsNotification(hs)
    /\ ValidlySigned(hs.notif)
    /\ AllOk(hs)
    /\ Outcome(hs.response) = "accepted"

\* C19: when a validly signed notification has been handled alone, its
\* store calls returning ok, and answered 200, handling the same notification
\* once more, its calls returning ok, issues the same calls with the same
\* looked-up row, is answered 200 again, and leaves every quiz result and,
\* but for the completion timestamp, every payment as the first handling
\* left them; the timestamp changes only for a successful payment; and when
\* both requests of a run carried the same notification and were so
\* answered, they issued the same calls and the payments of the order have
\* the status the notification writes.
C19_DuplicateReapplies ==
    /\ \A h \in Procs :
          (Accepted(handlers[h]) /\ Alone(h)) =>
              \A now \in Instants :
                  LET again == Again(handlers[h].notif, now) IN
                  /\ again.hs.calls = handlers[h].calls
                  /\ again.hs.paymentData = handlers[h].paymentData
                  /\ again.hs.response = handlers[h].response
                  /\ again.quiz_results = quiz_results
                  /\ Unstamped(again.payments) = Unstamped(payments)
                  /\ again.payments # payments =>
                        SuccessfulBucket(handlers[h].notif)
    /\ \A h, g \in Procs :
          (/\ h # g
           /\ Accepted(handlers[h])
           /\ Accepted(handlers[g])
           /\ handlers[h].notif = handlers[g].notif) =>
              /\ handlers[h].calls = handlers[g].calls
              /\ handlers[h].paymentData = handlers[g].paymentData
              /\ \A r \in RowsOf(handlers[h].notif.order_id) :
                    /\ SuccessfulBucket(handlers[h].notif) =>
                          /\ payments[r].status = "completed"
                          /\ quiz_results[payments[r].quiz_result_id]
                                .is_premium = "true"
                    /\ FailedBucket(handlers[h].notif) =>
                          payments[r].status = "failed"
                    /\ PendingBucket(handlers[h].notif) =>
                          payments[r].status = "pending"

\* The settlement for order A has been handled twice, every call returning
\* ok and both requests answered 200; the payment is completed and its quiz
\* result premium.
C19_Witness ==
    /\ Accepted(handlers["h1"])
    /\ Accepted(handlers["h2"])
    /\ handlers["h1"].notif = handlers["h2"].notif
    /\ handlers["h1"].notif.transaction_status = "settlement"
    /\ handlers["h1"].notif.order_id = OrderA
    /\ Ops(handlers["h2"]) =
         <<"select_payment", "update_quiz_result", "update_payment">>
    /\ payments["p1"].status = "completed"
    /\ payments["p1"].payment_date \in Instants
    /\ quiz_results["q1"].is_premium = "true"

-----------------------------------------------------------------------------
(* C20 *)

\* The notification with the given transaction_status and fraud_status and
\* the other fields of n.
Relabelled(n, ts, fs) ==
    [n EXCEPT !.transaction_status = ts, !.fraud_status = fs]

\* C20: when a notification request arrives, its notification given any
\* other transaction_status and fraud_status gets the verification result it
\* gets (true, false, or none when a required field is missing); and a
\* validly signed notification of the failed or of the pending path is
\* verified, and so is the notification with transaction_status settlement
\* and the same other fields, signature included: it is taken to the lookup,
\* and, the order having one payment and the store calls returning ok, it is
\* answered 200 with the premium flag of the payment's quiz result set.
C20_SignatureIgnoresStatus ==
    [][\A h \in Procs :
        LET hs == handlers'[h]
            n == hs.notif
        IN  (/\ handlers[h].pc = "idle"
             /\ IsNotification(hs)
             /\ hs.body = "object") =>
              /\ \A ts \in TransactionStatuses, fs \in FraudStatuses :
                    Received(Relabelled(n, ts, fs)).isValidSignature =
                       hs.isValidSignature
              /\ (ValidlySigned(n) /\ (FailedBucket(n) \/ PendingBucket(n))) =>
                    /\ hs.isValidSignature = "true"
                    /\ Received(AsSettlement(n)).isValidSignature = "true"
                    /\ Received(AsSettlement(n)).pc = "selectPayment"
                    /\ Received(AsSettlement(n)).notif.signature_key =
                          n.signature_key
                    /\ Cardinality(RowsOf(n.order_id)) = 1 =>
                          \A now \in Instants :
                              LET end == Again(AsSettlement(n), now) IN
                              /\ end.hs.response = Ok200
                              /\ \A q \in QuizOf(n.order_id) :
                                    end.quiz_results[q].is_premium = "true"
      ]_vars

\* A pending notification for order A was verified and handled; a
\* settlement with the same signature was then verified too, and has made
\* the quiz result of order A premium and completed the payment.
C20_Witness ==
    /\ Done("h1")
    /\ handlers["h1"].notif.transaction_status = "pending"
    /\ handlers["h1"].notif.order_id = OrderA
    /\ handlers["h1"].isValidSignature = "true"
    /\ handlers["h1"].response = Ok200
    /\ Done("h2")
    /\ handlers["h2"].notif = AsSettlement(handlers["h1"].notif)
    /\ handlers["h2"].isValidSignature = "true"
    /\ Replies(handlers["h2"]) = <<"ok", "ok", "ok">>
    /\ handlers["h2"].response = Ok200
    /\ quiz_results["q1"].is_premium = "true"
    /\ payments["p1"].status = "completed"
    /\ payments["p1"].payment_date \in Instants

-----------------------------------------------------------------------------
(* C21 *)

\* C21: in the runs that start with no completed payment, in every state,
\* whatever the notifications, their interleaving and the replies of the
\* store, the quiz result a completed payment references has is_premium
\* true; a step that makes a payment completed is the return of the payment
\* update of a request whose lookup and premium update returned ok, and the
\* quiz result it looked up, which is the one the payment references, is
\* premium by then; and a step of a request on the failed or the pending
\* path that changes a status leaves every is_premium as it is.
C21_CompletedImpliesPremium ==
    /\ [](\A r \in PayRows :
            payments[r].status = "completed" =>
                quiz_results[payments[r].quiz_result_id].is_premium = "true")
    /\ [][\A r \in PayRows :
            /\ (payments[r].status # "completed"
                /\ payments'[r].status = "completed") =>
                  \E h \in Procs :
                      LET hs == handlers[h] IN
                      /\ StepOf(h)
                      /\ hs.pc = "updateCompleted"
                      /\ hs.notif.order_id = payments[r].transaction_id
                      /\ Ops(hs) = <<"select_payment", "update_quiz_result">>
                      /\ Replies(hs) = <<"ok", "ok">>
                      /\ hs.paymentData.quiz_result_id =
                            payments[r].quiz_result_id
                      /\ quiz_results[hs.paymentData.quiz_result_id]
                            .is_premium = "true"
            /\ (payments[r].status = "completed"
                /\ payments'[r].status # "completed") =>
                  /\ payments'[r].status \in {"failed", "pending"}
                  /\ UNCHANGED quiz_results
                  /\ \E h \in Procs :
                        /\ StepOf(h)
                        /\ \/ FailedBucket(handlers[h].notif)
                           \/ PendingBucket(handlers[h].notif)]_vars

\* Both payments started pending; the settlement for order A has completed
\* the payment, whose quiz result is premium.
C21_Witness ==
    \E h \in Procs :
        /\ Done(h)
        /\ handlers[h].notif.order_id = OrderA
        /\ SuccessfulBucket(handlers[h].notif)
        /\ Replies(handlers[h]) = <<"ok", "ok", "ok">>
        /\ payments["p1"].status = "completed"
        /\ payments["p1"].payment_date \in Instants
        /\ quiz_results["q1"].is_premium = "true"
        /\ payments["p2"].status = "pending"
        /\ payments["p2"].payment_date = 0

\* The converse fails: the payment of order A was completed by a settlement
\* and then turned to failed by a deny, and its quiz result is still premium.
C21_PremiumWithoutCompleted ==
    /\ Done("h1")
    /\ handlers["h1"].notif.transaction_status = "settlement"
    /\ handlers["h1"].notif.order_id = OrderA
    /\ Replies(handlers["h1"]) = <<"ok", "ok", "ok">>
    /\ Done("h2")
    /\ handlers["h2"].notif.transaction_status = "deny"
    /\ handlers["h2"].notif.order_id = OrderA
    /\ Replies(handlers["h2"]) = <<"ok">>
    /\ payments["p1"].status = "failed"
    /\ payments["p1"].payment_date \in Instants
    /\ quiz_results["q1"].is_premium = "true"

====
